---- MODULE Spec2Model ----
(***************************************************************************)
(* Domain search demo: the client Search Coordinator (src/app/page.tsx)    *)
(* and the POST /api/search route handlers (src/unnamed/part_001).         *)
(*                                                                         *)
(* SpecLive    Spec with the fairness of the event loop and the network.   *)
(* Spec        the client coordinator: keystrokes, the debounce timer,     *)
(*             runSearch, the fetch continuations and the clear event.     *)
(* SpecServer  the route handlers: requests in two slots, the label cache, *)
(*             the supported-TLD cache and the calls to the providers.     *)
(* SpecLabel   domainLabelFromTitle applied to bounded titles.             *)
(* SpecTlds    pickCandidateTlds applied to bounded provider replies.      *)
(*                                                                         *)
(* Strings the server inspects are sequences of one-character strings.     *)
(***************************************************************************)
EXTENDS Integers, Sequences, FiniteSets, TLC

VARIABLES
    mounted,        \* the mount effects have run
    q,              \* useState q
    results,        \* useState results
    loading,        \* useState loading
    url,            \* the q parameter of window.location ("" = absent)
    timers,         \* pending setTimeout callbacks: [id, q]
    debounceRef,    \* debounceRef.current (0 = null)
    fetchAbortRef,  \* fetchAbortRef.current: a controller (0 = null)
    inflight,       \* runSearch calls suspended at `await fetchDomains`
    searchCache,    \* searchCacheRef.current
    clock,          \* Date.now(), in minutes
    lastSearch,     \* history: the latest runSearch call: its query, its time, and
                    \* whether a result stored < 2 minutes earlier existed
    ev,             \* history: the handler that ran last
    srv,            \* server: the request each slot is handling
    labelCache,     \* server: labelCache, a set of [key, label, ts]
    tldsCache,      \* server: tldsCache
    srvClock,       \* server: Date.now(), in units of 5 minutes
    started,        \* server: requests accepted so far
    sentBody,       \* server: the request body the clients send
    derived,        \* history: the generation that completed last
    sev,            \* history: the server step that ran last
    fnArg,          \* a function under study: its argument
    fnOut,          \* a function under study: its result
    fnOp            \* a function under study: what was applied last

cliVars == <<mounted, q, results, loading, url, timers, debounceRef,
             fetchAbortRef, inflight, searchCache, clock, lastSearch, ev>>
srvVars == <<srv, labelCache, tldsCache, srvClock, started, sentBody, derived, sev>>
fnVars == <<fnArg, fnOut, fnOp>>
vars == <<cliVars, srvVars, fnVars>>

----------------------------------------------------------------------------
(* Bounds *)

MaxTime == 2

(* Program constants *)

SEARCH_CACHE_TTL == 2

----------------------------------------------------------------------------
(* Values *)

Queries == {"cats", "dogs"}
NoQuery == ""
Null == 0

\* Handles of timers and AbortControllers.  A handle is reused only when no
\* reference to it is left, so `===` on handles is equality of these numbers.
TimerIds == 1 .. 3
CtlIds == 1 .. 3

\* JSON values as the client sees them: a shape, the items of the array the
\* shape carries, and a token naming the object itself.
Json(shape, items, tok) == [shape |-> shape, items |-> items, tok |-> tok]
JsonNull == Json("null", <<>>, "null")
JsonArray(items) == Json("array", items, "array")

\* What POST /api/search can answer for a query: { domains: [...] },
\* { domains: { results: [...] } } or { error: message }.
ErrorBody == Json("plain", <<>>, "error")
Responses(query) ==
    { Json("domains", <<query>>, "ok"),
      Json("domains", <<>>, "ok"),
      Json("domainsResults", <<query>>, "ok"),
      ErrorBody }

NoEntry == [present |-> FALSE, results |-> <<>>, ts |-> 0]

----------------------------------------------------------------------------
(* normalizeDomainPayload and fetchDomains *)

\* obj.domains of a JSON value (JsonNull when absent)
FieldDomains(j) ==
    CASE j.shape = "domains" -> JsonArray(j.items)
      [] j.shape = "domainsResults" -> Json("results", j.items, j.tok)
      [] OTHER -> JsonNull

\* obj.results of a JSON value (JsonNull when absent)
FieldResults(j) ==
    IF j.shape = "results" THEN JsonArray(j.items) ELSE JsonNull

normalizeDomainPayload(payload) ==
    IF payload.shape = "array" THEN payload.items
    ELSE IF payload.shape = "null" THEN <<>>
    ELSE LET c1 == FieldResults(payload)
             c2 == FieldDomains(payload)
             c3 == IF c2.shape \notin {"null", "array"}
                   THEN FieldResults(c2) ELSE JsonNull
         IN  IF c1.shape = "array" THEN c1.items
             ELSE IF c2.shape = "array" THEN c2.items
             ELSE IF c3.shape = "array" THEN c3.items
             ELSE <<payload.tok>>

\* fetchDomains after `await res.json()` delivered data
fetchDomainsOk(data) ==
    LET d == IF data.shape = "null" THEN JsonNull ELSE FieldDomains(data)
        payload == IF d.shape # "null" THEN d
                   ELSE IF data.shape # "null" THEN data
                   ELSE JsonArray(<<>>)
    IN  normalizeDomainPayload(payload)

\* fetchDomains when fetch or res.json() threw (AbortError or any other)
fetchDomainsCaught == <<>>

----------------------------------------------------------------------------
(* runSearch *)

getCachedSearch(cache, s, now) ==
    LET c == cache[s]
    IN  IF c.present /\ now - c.ts < SEARCH_CACHE_TTL
        THEN [hit |-> TRUE, results |-> c.results]
        ELSE [hit |-> FALSE, results |-> <<>>]

updateUrl(s) == s

\* clearTimeout(id)
clearTimeout(ts, id) == { t \in ts : t.id # id }

\* controller.abort() on fetchAbortRef.current
AbortCurrent(reqs, ref, cause) ==
    { IF r.ctl = ref /\ ~r.aborted
      THEN [r EXCEPT !.aborted = TRUE, !.cause = cause]
      ELSE r : r \in reqs }

FreeCtls == { c \in CtlIds : c # fetchAbortRef /\ \A r \in inflight : r.ctl # c }
FreeTimers == { i \in TimerIds : i # debounceRef /\ \A t \in timers : t.id # i }

\* An aborted fetch rejects inside controller.abort(); the continuation of
\* runSearch is then a queued microtask, which runs before the next task
\* (keystroke, timer, network event) of the event loop.
MicrotaskQueued == \E r \in inflight : r.aborted

\* a result set for s was stored less than SEARCH_CACHE_TTL ago
StoredFresh(s) ==
    searchCache[s].present /\ clock - searchCache[s].ts < SEARCH_CACHE_TTL

Event(op, query, cause) == [op |-> op, q |-> query, cause |-> cause]

----------------------------------------------------------------------------
(* Initial state: the component is constructed, nothing has run.  The page   *)
(* may have been opened through a shared link carrying ?q=.                 *)

InitClient ==
    /\ mounted = FALSE
    /\ q = NoQuery
    /\ results = <<>>
    /\ loading = FALSE
    /\ url \in Queries \cup {NoQuery}
    /\ timers = {}
    /\ debounceRef = Null
    /\ fetchAbortRef = Null
    /\ inflight = {}
    /\ searchCache = [s \in Queries |-> NoEntry]
    /\ clock = 0
    /\ lastSearch = [q |-> NoQuery, at |-> 0, fresh |-> FALSE]
    /\ ev = Event("init", NoQuery, "none")

----------------------------------------------------------------------------
(* The query effect, run with the new value of q *)

\* branch `if (!q)`: cancel timer and request, clear the UI state
EffectEmpty ==
    /\ timers' = clearTimeout(timers, debounceRef)
    /\ debounceRef' = Null
    /\ inflight' = AbortCurrent(inflight, fetchAbortRef, "cleared")
    /\ fetchAbortRef' = Null
    /\ results' = <<>>
    /\ loading' = FALSE
    /\ url' = NoQuery

\* mutant: the effect forgets to cancel the pending timer
EffectCancelForgotten(ts, ref) == ts

\* the timers left after the effect's clearTimeout(debounceRef.current)
EffectCancel(ts, ref) == clearTimeout(ts, ref)

\* non-empty branch: setLoading(true) and a new 300ms timer capturing v
EffectDebounce(v) ==
    /\ FreeTimers # {}
    /\ LET id == CHOOSE i \in FreeTimers : \A j \in FreeTimers : i <= j
       IN  /\ timers' = EffectCancel(timers, debounceRef) \cup {[id |-> id, q |-> v]}
           /\ debounceRef' = id
    /\ loading' = TRUE
    /\ UNCHANGED <<results, url, inflight, fetchAbortRef>>

QueryEffect(v) == IF v = NoQuery THEN EffectEmpty ELSE EffectDebounce(v)

\* Mount: the first effect seeds q from the URL (setQ(paramQ)); the query
\* effect runs once with the initial q = "" (its empty branch removes q from
\* the URL) and, when a query was seeded, again with the seeded value.
Mount ==
    /\ ~mounted
    /\ ~MicrotaskQueued
    /\ mounted' = TRUE
    /\ q' = url
    /\ results' = <<>>
    /\ url' = NoQuery
    /\ inflight' = AbortCurrent(inflight, fetchAbortRef, "cleared")
    /\ fetchAbortRef' = Null
    /\ IF url = NoQuery
       THEN /\ timers' = clearTimeout(timers, debounceRef)
            /\ debounceRef' = Null
            /\ loading' = FALSE
       ELSE /\ FreeTimers # {}
            /\ LET id == CHOOSE i \in FreeTimers : \A j \in FreeTimers : i <= j
               IN  /\ timers' = EffectCancel(timers, debounceRef)
                                    \cup {[id |-> id, q |-> url]}
                   /\ debounceRef' = id
            /\ loading' = TRUE
    /\ UNCHANGED <<searchCache, clock, lastSearch>>
    /\ ev' = Event("mount", url, "none")
    /\ UNCHANGED <<srvVars, fnVars>>

\* onChange: setQ(v) with a changed value, then the query effect
Keystroke(v) ==
    /\ mounted
    /\ ~MicrotaskQueued
    /\ v # q
    /\ q' = v
    /\ QueryEffect(v)
    /\ UNCHANGED <<mounted, searchCache, clock, lastSearch>>
    /\ ev' = Event("key", v, "none")
    /\ UNCHANGED <<srvVars, fnVars>>

\* the "inputgroup:clear" listener; the query effect that follows setQ("")
\* repeats the same reset
onClear ==
    /\ mounted
    /\ ~MicrotaskQueued
    /\ q' = NoQuery
    /\ EffectEmpty
    /\ UNCHANGED <<mounted, searchCache, clock, lastSearch>>
    /\ ev' = Event("clear", NoQuery, "none")
    /\ UNCHANGED <<srvVars, fnVars>>

----------------------------------------------------------------------------
(* The debounce callback and the synchronous part of runSearch *)

\* the controller's request enters flight (fetch was called)
IssueRequest(reqs, ctl, query) ==
    reqs \cup {[ctl |-> ctl, q |-> query, aborted |-> FALSE, cause |-> "none"]}

\* mutant: the callback forgets to abort the previous request
SupersedePreviousForgotten(reqs, ref) == reqs

\* the requests left in flight after the callback's abort of the previous one
SupersedePrevious(reqs, ref) == AbortCurrent(reqs, ref, "superseded")

DebounceFire(t) ==
    /\ t \in timers
    /\ ~MicrotaskQueued
    /\ timers' = timers \ {t}
    /\ FreeCtls # {}
    /\ LET controller == CHOOSE c \in FreeCtls : \A d \in FreeCtls : c <= d
           aborted == SupersedePrevious(inflight, fetchAbortRef)
           cached == getCachedSearch(searchCache, t.q, clock)
       IN  /\ fetchAbortRef' = controller
           /\ IF cached.hit
              THEN /\ inflight' = aborted
                   /\ results' = cached.results
                   /\ loading' = FALSE
                   /\ url' = updateUrl(t.q)
                   /\ ev' = Event("fireHit", t.q, "none")
              ELSE /\ inflight' = IssueRequest(aborted, controller, t.q)
                   /\ UNCHANGED <<results, loading, url>>
                   /\ ev' = Event("fireMiss", t.q, "none")
    /\ lastSearch' = [q |-> t.q, at |-> clock, fresh |-> StoredFresh(t.q)]
    /\ UNCHANGED <<mounted, q, debounceRef, searchCache, clock>>
    /\ UNCHANGED <<srvVars, fnVars>>

----------------------------------------------------------------------------
(* The continuation of runSearch after `await fetchDomains` *)

\* mutant: the continuation leaves the loading flag as it is
RunSearchContinueKeepsLoading(req, r) ==
    /\ inflight' = inflight \ {req}
    /\ searchCache' = [searchCache EXCEPT
                         ![req.q] = [present |-> TRUE, results |-> r, ts |-> clock]]
    /\ fetchAbortRef' = IF fetchAbortRef = req.ctl THEN Null ELSE fetchAbortRef
    /\ results' = r
    /\ url' = updateUrl(req.q)
    /\ UNCHANGED <<mounted, q, timers, debounceRef, clock, lastSearch, loading>>

RunSearchContinue(req, r) ==
    /\ inflight' = inflight \ {req}
    /\ searchCache' = [searchCache EXCEPT
                         ![req.q] = [present |-> TRUE, results |-> r, ts |-> clock]]
    /\ fetchAbortRef' = IF fetchAbortRef = req.ctl THEN Null ELSE fetchAbortRef
    /\ results' = r
    /\ loading' = FALSE
    /\ url' = updateUrl(req.q)
    /\ UNCHANGED <<mounted, q, timers, debounceRef, clock, lastSearch>>

\* the response arrived and res.json() delivered data
FetchResolve(req, data) ==
    /\ req \in inflight
    /\ ~req.aborted
    /\ ~MicrotaskQueued
    /\ RunSearchContinue(req, fetchDomainsOk(data))
    /\ ev' = Event("resolve", req.q, "none")
    /\ UNCHANGED <<srvVars, fnVars>>

\* fetch rejected for a reason other than an abort
FetchFail(req) ==
    /\ req \in inflight
    /\ ~req.aborted
    /\ ~MicrotaskQueued
    /\ RunSearchContinue(req, fetchDomainsCaught)
    /\ ev' = Event("fail", req.q, "none")
    /\ UNCHANGED <<srvVars, fnVars>>

\* fetch rejected with AbortError after controller.abort()
FetchAborted(req) ==
    /\ req \in inflight
    /\ req.aborted
    /\ RunSearchContinue(req, fetchDomainsCaught)
    /\ ev' = Event("aborted", req.q, req.cause)
    /\ UNCHANGED <<srvVars, fnVars>>

\* time passes
Tick ==
    /\ clock < MaxTime
    /\ ~MicrotaskQueued
    /\ clock' = clock + 1
    /\ UNCHANGED <<mounted, q, results, loading, url, timers, debounceRef,
                   fetchAbortRef, inflight, searchCache, lastSearch, ev>>
    /\ UNCHANGED <<srvVars, fnVars>>

----------------------------------------------------------------------------
(* Server: strings *)

MaxLen == 3
MaxSrvTime == 2

\* Program constants.  The two TTLs are in the unit of srvClock (5 minutes).
LABEL_CACHE_TTL == 2
TLDS_CACHE_TTL == 1
LabelCap == 63
TitleCap == 30
TitleKeep == 27
PlainLimit == 50
AiLimit == 25

Whitespace == {" ", "\t"}
LabelChars == {"a", "b", "c", "0", "-"}
Chars == {"A", ".", " ", "\t"}

RawQueries == UNION { [1 .. n -> Chars] : n \in 0 .. MaxLen }

toLowerCaseChar(c) == IF c = "A" THEN "a" ELSE IF c = "B" THEN "b" ELSE c
toLowerCase(s) == [i \in 1 .. Len(s) |-> toLowerCaseChar(s[i])]

\* String.prototype.trim
trim(s) ==
    LET keep == { i \in 1 .. Len(s) : s[i] \notin Whitespace }
    IN  IF keep = {} THEN <<>>
        ELSE SubSeq(s, CHOOSE i \in keep : \A j \in keep : i <= j,
                       CHOOSE i \in keep : \A j \in keep : i >= j)

includes(s, c) == \E i \in 1 .. Len(s) : s[i] = c

\* s.replace(LEADING_DOT_RE, "")
stripLeadingDot(s) == IF Len(s) > 0 /\ s[1] = "." THEN Tail(s) ELSE s

\* s.replace(LEADING_DOTS_RE, "")
stripLeadingDots(s) ==
    LET keep == { i \in 1 .. Len(s) : s[i] # "." }
    IN  IF keep = {} THEN <<>>
        ELSE SubSeq(s, CHOOSE i \in keep : \A j \in keep : i <= j, Len(s))

\* WHITESPACE_RE.test(s)
hasWhitespace(s) == \E i \in 1 .. Len(s) : s[i] \in Whitespace

\* s.replace(WHITESPACE_RE, ""): the regex is not global, so only the first
\* run of whitespace is removed
removeFirstWhitespace(s) ==
    LET ws == { i \in 1 .. Len(s) : s[i] \in Whitespace }
    IN  IF ws = {} THEN s
        ELSE LET a == CHOOSE i \in ws : \A j \in ws : i <= j
                 after == { i \in a .. Len(s) : s[i] \notin Whitespace }
                 b == IF after = {} THEN Len(s) + 1
                      ELSE CHOOSE i \in after : \A j \in after : i <= j
             IN  SubSeq(s, 1, a - 1) \o SubSeq(s, b, Len(s))

\* s.replace(SURROUNDING_QUOTE_RE, ""): one leading and one trailing quote
stripSurroundingQuotes(s) ==
    LET a == IF Len(s) > 0 /\ s[1] = "\"" THEN Tail(s) ELSE s
    IN  IF Len(a) > 0 /\ a[Len(a)] = "\"" THEN SubSeq(a, 1, Len(a) - 1) ELSE a

IsLabelChar(c) == c \in LabelChars

\* s.replace(TRIM_HYPHEN_RE, "")
trimHyphens(s) ==
    LET keep == { i \in 1 .. Len(s) : s[i] # "-" }
    IN  IF keep = {} THEN <<>>
        ELSE SubSeq(s, CHOOSE i \in keep : \A j \in keep : i <= j,
                       CHOOSE i \in keep : \A j \in keep : i >= j)

domainLabelFromTitle(input) ==
    IF input = <<>> THEN <<>>
    ELSE LET s1 == trim(toLowerCase(input))
             s2 == stripSurroundingQuotes(s1)
             s3 == stripLeadingDots(s2)
             s4 == removeFirstWhitespace(s3)
             s5 == SelectSeq(s4, IsLabelChar)
             s6 == trimHyphens(s5)
         IN  IF Len(s6) > LabelCap THEN SubSeq(s6, 1, LabelCap) ELSE s6

----------------------------------------------------------------------------
(* Server: the label synthesizer *)

\* What generateText can do: return a text, or throw.
GenTexts ==
    { <<"\"", "A", "b", " ", "c", "\"">>,   \* "Ab c" in quotes: a usable label
      <<"!", ".">> }                         \* sanitizes to the empty label

CacheGet(cache, key) ==
    IF \E e \in cache : e.key = key
    THEN LET e == CHOOSE x \in cache : x.key = key
         IN  [present |-> TRUE, label |-> e.label, ts |-> e.ts]
    ELSE [present |-> FALSE, label |-> <<>>, ts |-> 0]

CacheSet(cache, key, label, ts) ==
    { e \in cache : e.key # key } \cup {[key |-> key, label |-> label, ts |-> ts]}

\* mutant: every query is treated as multi-word
labelStartAlwaysMultiWord(originalQ, normalizedQ, cache, now) ==
    LET cached == CacheGet(cache, originalQ)
    IN  IF cached.present /\ now - cached.ts < LABEL_CACHE_TTL
        THEN [st |-> "done", label |-> cached.label, read |-> TRUE, gen |-> FALSE]
        ELSE [st |-> "pending", label |-> <<>>, read |-> TRUE, gen |-> TRUE]

\* getSearchLabelFromQuery up to its first await: the label when no
\* generation is needed, whether the cache was read, whether generateText
\* was called
labelStart(originalQ, normalizedQ, cache, now) ==
    LET multiWord == hasWhitespace(originalQ)
        cached == CacheGet(cache, originalQ)
    IN  IF ~multiWord
        THEN [st |-> "done", label |-> normalizedQ, read |-> FALSE, gen |-> FALSE]
        ELSE IF cached.present /\ now - cached.ts < LABEL_CACHE_TTL
        THEN [st |-> "done", label |-> cached.label, read |-> TRUE, gen |-> FALSE]
        ELSE [st |-> "pending", label |-> <<>>, read |-> TRUE, gen |-> TRUE]

\* the fallback of both the empty-label path and the catch path
fallbackLabelOf(normalizedQ) == removeFirstWhitespace(normalizedQ)

\* the label after generateText returned title
labelFromTitle(title, normalizedQ) ==
    LET cleaned == stripSurroundingQuotes(trim(title))
        finalTitle == IF Len(cleaned) > TitleCap
                      THEN trim(SubSeq(cleaned, 1, TitleKeep)) \o <<".", ".", ".">>
                      ELSE cleaned
        label == domainLabelFromTitle(finalTitle)
    IN  IF label # <<>> THEN label ELSE fallbackLabelOf(normalizedQ)

\* the label cache after generateText returned: both paths store the label
cacheAfterTitle(cache, originalQ, label, now) == CacheSet(cache, originalQ, label, now)

\* mutant: the catch block returns the fallback without storing it
cacheAfterThrowNotStored(cache, originalQ, fallback, now) == cache

\* the label cache after generateText threw: the catch block stores the fallback
cacheAfterThrow(cache, originalQ, fallback, now) == CacheSet(cache, originalQ, fallback, now)

----------------------------------------------------------------------------
(* Server: the TLD candidate selector and the availability resolver *)

com == <<"c", "o", "m">>
net == <<"n", "e", "t">>
org == <<"o", "r", "g">>
dev == <<"d", "e", "v">>
io == <<"i", "o">>
app == <<"a", "p", "p">>
ai == <<"a", "i">>
co == <<"c", "o">>
xyz == <<"x", "y", "z">>
tech == <<"t", "e", "c", "h">>
site == <<"s", "i", "t", "e">>
online == <<"o", "n", "l", "i", "n", "e">>
me == <<"m", "e">>
info == <<"i", "n", "f", "o">>
store == <<"s", "t", "o", "r", "e">>

COMMON == <<com, net, org, dev, io, app, ai, co, xyz, tech, site, online, me,
            info, store>>

SeqIncludes(list, x) == \E i \in 1 .. Len(list) : list[i] = x

RECURSIVE FilterSeq(_, _, _)
\* list.filter(x => keepIn ? allowed.includes(x) : !allowed.includes(x))
FilterSeq(list, allowed, keepIn) ==
    IF list = <<>> THEN <<>>
    ELSE LET rest == FilterSeq(Tail(list), allowed, keepIn)
         IN  IF SeqIncludes(allowed, Head(list)) = keepIn
             THEN <<Head(list)>> \o rest ELSE rest

\* mutant: the list is cut to the limit as the provider ordered it
pickCandidateTldsUnordered(tlds, limit) ==
    SubSeq(tlds, 1, IF Len(tlds) < limit THEN Len(tlds) ELSE limit)

pickCandidateTlds(tlds, limit) ==
    LET preferred == FilterSeq(COMMON, tlds, TRUE)
        rest == FilterSeq(tlds, preferred, FALSE)
        all == preferred \o rest
    IN  SubSeq(all, 1, IF Len(all) < limit THEN Len(all) ELSE limit)

\* q.includes(".") && !q.includes(" ")
looksLikeDomain(query) == includes(query, ".") /\ ~includes(query, " ")

buildDomainsToCheck(isDomain, normalizedQ, searchLabel, tlds, limit) ==
    IF isDomain THEN <<normalizedQ>>
    ELSE LET finalTlds == pickCandidateTlds(tlds, limit)
         IN  [i \in 1 .. Len(finalTlds) |-> searchLabel \o <<".">> \o finalTlds[i]]

\* What the provider's getSupportedTlds can resolve to
SupportedReplies ==
    { [isArray |-> TRUE, items |-> <<<<".", "i", "o">>, <<"z", "z">>, <<>>, com>>],
      [isArray |-> FALSE, items |-> <<>>] }

RECURSIVE cleanTlds(_)
\* supported.map(t => String(t).replace(LEADING_DOT_RE, "")).filter(Boolean)
cleanTlds(items) ==
    IF items = <<>> THEN <<>>
    ELSE LET t == stripLeadingDot(Head(items))
         IN  IF t = <<>> THEN cleanTlds(Tail(items))
             ELSE <<t>> \o cleanTlds(Tail(items))

supportedToTlds(reply) == IF reply.isArray THEN cleanTlds(reply.items) ELSE <<>>

\* getSupportedTlds up to its await: the cached list when it is fresh
tldsStart(cache, now) ==
    IF cache.present /\ now - cache.ts < TLDS_CACHE_TTL
    THEN [st |-> "done", tlds |-> cache.tlds]
    ELSE [st |-> "pending", tlds |-> <<>>]

\* mutant: the catch block masks the failure as an empty success
maskedResponse == [status |-> 200, body |-> "domains"]

\* the responses of the route
okResponse == [status |-> 200, body |-> "domains"]
\* { domains: [] }, the answer to an empty query
emptyResponse == [status |-> 200, body |-> "domainsEmpty"]
noResponse == [status |-> 0, body |-> "none"]
\* the catch block of POST
errorResponse == [status |-> 500, body |-> "error"]

----------------------------------------------------------------------------
(* Server: requests *)

MaxRequests == 2

Slots == {1, 2}
Routes == {"plain", "ai"}

\* body.teamId: a team identifier, or "" (which also stands for a missing or
\* non-string teamId: all three are falsy in the test of line 260)
TeamIds == {"", "team_1"}
Undefined == "undefined"

\* request bodies: q is a string, or is missing / not a string
Bodies == { [isString |-> TRUE, q |-> r, teamId |-> t] :
                r \in RawQueries, t \in TeamIds }
              \cup { [isString |-> FALSE, q |-> <<>>, teamId |-> t] : t \in TeamIds }

IdleRequest ==
    [pc |-> "idle", route |-> "ai", q |-> <<>>, teamId |-> Undefined,
     labelSt |-> "none",
     label |-> <<>>, now |-> 0, tldsSt |-> "none", tlds |-> <<>>, sent |-> <<>>]

NoTlds == [present |-> FALSE, tlds |-> <<>>, ts |-> 0]

ServerEvent(op, resp) == [op |-> op, resp |-> resp]

InitServer ==
    /\ srv = [s \in Slots |-> IdleRequest]
    /\ labelCache = {}
    /\ tldsCache = NoTlds
    /\ srvClock = 0
    /\ started = 0
    /\ derived = [q |-> <<>>, at |-> 0, label |-> <<>>, outcome |-> "none"]
    /\ sev = ServerEvent("init", noResponse)

limitOf(route) == IF route = "plain" THEN PlainLimit ELSE AiLimit

\* Promise.all settled with both values: build the list and call
\* getBulkAvailability
issueBulk(r) ==
    [r EXCEPT !.pc = "bulk",
              !.sent = buildDomainsToCheck(looksLikeDomain(r.q),
                           stripLeadingDot(r.q), r.label, r.tlds, limitOf(r.route))]

\* mutant: the availability call does not wait for the TLD list
afterSettleEager(r) ==
    IF r.pc = "await" /\ r.labelSt = "done" THEN
        [r EXCEPT !.pc = "bulk",
                  !.sent = buildDomainsToCheck(looksLikeDomain(r.q),
                               stripLeadingDot(r.q), r.label, r.tlds,
                               IF r.route = "plain" THEN PlainLimit ELSE AiLimit)]
    ELSE r

\* the request after one of its two awaited values arrived
afterSettle(r) ==
    IF r.pc = "await" /\ r.labelSt = "done" /\ r.tldsSt = "done"
    THEN issueBulk(r) ELSE r

\* mutant: the query is not trimmed
queryOfUntrimmed(body) == IF body.isString THEN toLowerCase(body.q) ELSE <<>>

\* the body's q, trimmed and lowercased ("" when it is not a string)
queryOf(body) == IF body.isString THEN toLowerCase(trim(body.q)) ELSE <<>>

\* the body's teamId when it is a non-empty string
teamIdOf(body) == IF body.teamId # "" THEN body.teamId ELSE Undefined

\* POST up to its first suspension
SrvStart(slot, route, body) ==
    /\ srv[slot].pc = "idle"
    /\ \A s \in Slots : s < slot => srv[s].pc # "idle"
    /\ started < MaxRequests
    /\ started' = started + 1
    /\ LET query == queryOf(body)
           normalizedQ == stripLeadingDot(query)
           lab == IF route = "ai"
                  THEN labelStart(query, normalizedQ, labelCache, srvClock)
                  ELSE [st |-> "done", label |-> normalizedQ,
                        read |-> FALSE, gen |-> FALSE]
           td == IF route = "ai" THEN tldsStart(tldsCache, srvClock)
                 ELSE [st |-> "pending", tlds |-> <<>>]
       IN  IF query = <<>>
           THEN /\ srv' = srv
                /\ sev' = ServerEvent("empty", emptyResponse)
           ELSE /\ srv' = [srv EXCEPT ![slot] = afterSettle(
                              [pc |-> "await", route |-> route, q |-> query,
                               teamId |-> teamIdOf(body),
                               labelSt |-> lab.st, label |-> lab.label,
                               now |-> IF lab.gen THEN srvClock ELSE 0,
                               tldsSt |-> td.st,
                               tlds |-> td.tlds, sent |-> <<>>])]
                /\ sev' = ServerEvent(IF lab.gen THEN "startGen"
                                       ELSE IF lab.read THEN "startHit"
                                       ELSE "start", noResponse)
    /\ UNCHANGED <<labelCache, tldsCache, srvClock, derived, sentBody>>
    /\ UNCHANGED <<cliVars, fnVars>>

\* the slot after the generation settled
afterLabel(r, label) ==
    IF r.pc = "orphan" THEN IdleRequest
    ELSE afterSettle([r EXCEPT !.labelSt = "done", !.label = label])

\* generateText resolved with title
GenResolve(slot, title) ==
    /\ srv[slot].labelSt = "pending"
    /\ LET r == srv[slot]
           label == labelFromTitle(title, stripLeadingDot(r.q))
       IN  /\ labelCache' = cacheAfterTitle(labelCache, r.q, label, r.now)
           /\ srv' = [srv EXCEPT ![slot] = afterLabel(r, label)]
           /\ derived' = [q |-> r.q, at |-> r.now, label |-> label,
                          outcome |-> IF domainLabelFromTitle(title) = <<>>
                                      THEN "empty" ELSE "label"]
           /\ sev' = ServerEvent("genResolve", noResponse)
    /\ UNCHANGED <<tldsCache, srvClock, started, sentBody>>
    /\ UNCHANGED <<cliVars, fnVars>>

\* generateText threw
GenReject(slot) ==
    /\ srv[slot].labelSt = "pending"
    /\ LET r == srv[slot]
           fallback == fallbackLabelOf(stripLeadingDot(r.q))
       IN  /\ labelCache' = cacheAfterThrow(labelCache, r.q, fallback, r.now)
           /\ srv' = [srv EXCEPT ![slot] = afterLabel(r, fallback)]
           /\ derived' = [q |-> r.q, at |-> r.now, label |-> fallback,
                          outcome |-> "error"]
           /\ sev' = ServerEvent("genReject", noResponse)
    /\ UNCHANGED <<tldsCache, srvClock, started, sentBody>>
    /\ UNCHANGED <<cliVars, fnVars>>

\* the provider's getSupportedTlds resolved
TldsResolve(slot, reply) ==
    /\ srv[slot].pc = "await"
    /\ srv[slot].tldsSt = "pending"
    /\ LET r == srv[slot]
           tlds == supportedToTlds(reply)
       IN  /\ tldsCache' = IF r.route = "ai"
                           THEN [present |-> TRUE, tlds |-> tlds, ts |-> srvClock]
                           ELSE tldsCache
           /\ srv' = [srv EXCEPT ![slot] =
                         afterSettle([r EXCEPT !.tldsSt = "done", !.tlds = tlds])]
           /\ sev' = ServerEvent("tldsResolve", noResponse)
    /\ UNCHANGED <<labelCache, srvClock, started, derived, sentBody>>
    /\ UNCHANGED <<cliVars, fnVars>>

\* the provider's getSupportedTlds threw: the route's catch block answers
\* while a generation that is still running goes on
TldsReject(slot) ==
    /\ srv[slot].pc = "await"
    /\ srv[slot].tldsSt = "pending"
    /\ LET r == srv[slot]
       IN  /\ srv' = [srv EXCEPT ![slot] =
                         IF r.labelSt = "pending"
                         THEN [r EXCEPT !.pc = "orphan", !.tldsSt = "failed"]
                         ELSE IdleRequest]
           /\ sev' = ServerEvent("tldsReject", errorResponse)
    /\ UNCHANGED <<labelCache, tldsCache, srvClock, started, derived, sentBody>>
    /\ UNCHANGED <<cliVars, fnVars>>

\* getBulkAvailability resolved
BulkResolve(slot) ==
    /\ srv[slot].pc = "bulk"
    /\ srv' = [srv EXCEPT ![slot] = IdleRequest]
    /\ sev' = ServerEvent("bulkResolve", okResponse)
    /\ UNCHANGED <<labelCache, tldsCache, srvClock, started, derived, sentBody>>
    /\ UNCHANGED <<cliVars, fnVars>>

\* getBulkAvailability threw
BulkReject(slot) ==
    /\ srv[slot].pc = "bulk"
    /\ srv' = [srv EXCEPT ![slot] = IdleRequest]
    /\ sev' = ServerEvent("bulkReject", errorResponse)
    /\ UNCHANGED <<labelCache, tldsCache, srvClock, started, derived, sentBody>>
    /\ UNCHANGED <<cliVars, fnVars>>

SrvTick ==
    /\ srvClock < MaxSrvTime
    /\ srvClock' = srvClock + 1
    /\ UNCHANGED <<srv, labelCache, tldsCache, started, derived, sev, sentBody>>
    /\ UNCHANGED <<cliVars, fnVars>>

----------------------------------------------------------------------------
(* Specifications *)

\* a body whose q is not a string
NoBody == [isString |-> FALSE, q |-> <<>>, teamId |-> ""]

\* no function is under study
FnIdle == fnArg = <<>> /\ fnOut = <<>> /\ fnOp = "none"

Init == InitClient /\ InitServer /\ sentBody = NoBody /\ FnIdle

Next ==
    \/ Mount
    \/ \E v \in Queries \cup {NoQuery} : Keystroke(v)
    \/ onClear
    \/ \E t \in timers : DebounceFire(t)
    \/ \E req \in inflight : \E data \in Responses(req.q) : FetchResolve(req, data)
    \/ \E req \in inflight : FetchFail(req)
    \/ \E req \in inflight : FetchAborted(req)
    \/ Tick

Spec == Init /\ [][Next]_vars

\* The event loop runs a timer callback that is due and the continuation of
\* a rejected fetch; every request in flight is eventually answered or fails.
Fairness ==
    /\ WF_vars(\E t \in timers : DebounceFire(t))
    /\ WF_vars(\E req \in inflight : FetchAborted(req))
    /\ WF_vars(\E req \in inflight :
                  \/ \E data \in Responses(req.q) : FetchResolve(req, data)
                  \/ FetchFail(req))

SpecLive == Spec /\ Fairness

\* no request is being handled
AllIdle == \A s \in Slots : srv[s].pc = "idle"

\* the clients repeat one request body, on either route, each request after
\* the previous one was answered
NextServer ==
    \/ \E slot \in Slots, route \in Routes :
           AllIdle /\ SrvStart(slot, route, sentBody)
    \/ \E slot \in Slots, title \in GenTexts : GenResolve(slot, title)
    \/ \E slot \in Slots : GenReject(slot)
    \/ \E slot \in Slots, reply \in SupportedReplies : TldsResolve(slot, reply)
    \/ \E slot \in Slots : TldsReject(slot)
    \/ \E slot \in Slots : BulkResolve(slot)
    \/ \E slot \in Slots : BulkReject(slot)
    \/ SrvTick

\* the server alone: the page is not open
InitServerOnly ==
    InitClient /\ url = NoQuery /\ InitServer /\ sentBody \in Bodies /\ FnIdle

SpecServer == InitServerOnly /\ [][NextServer]_vars

\* the same with requests that overlap
NextServerRace ==
    \/ \E slot \in Slots, route \in Routes : SrvStart(slot, route, sentBody)
    \/ \E slot \in Slots, title \in GenTexts : GenResolve(slot, title)
    \/ \E slot \in Slots : GenReject(slot)
    \/ \E slot \in Slots, reply \in SupportedReplies : TldsResolve(slot, reply)
    \/ \E slot \in Slots : TldsReject(slot)
    \/ \E slot \in Slots : BulkResolve(slot)
    \/ \E slot \in Slots : BulkReject(slot)
    \/ SrvTick

SpecServerRace == InitServerOnly /\ [][NextServerRace]_vars

----------------------------------------------------------------------------
(* domainLabelFromTitle on its own *)

MaxTitleLen == 3

\* the characters of a title: a letter, a hyphen, whitespace, a quote, a dot
TitleChars == {"A", "-", " ", "\"", "."}

\* titles: short ones, and the same behind a run of letters that fills the
\* label up to one character below the cap
Titles ==
    LET short == UNION { [1 .. n -> TitleChars] : n \in 0 .. MaxTitleLen }
        run == [i \in 1 .. LabelCap - 1 |-> "a"]
    IN  short \cup { run \o t : t \in short }

\* neither route is running
Unused == InitClient /\ url = NoQuery /\ InitServer /\ sentBody = NoBody

InitLabel == Unused /\ fnArg \in Titles /\ fnOut = <<>> /\ fnOp = "none"

\* domainLabelFromTitle(input)
Sanitize ==
    /\ fnOp = "none"
    /\ fnOut' = domainLabelFromTitle(fnArg)
    /\ fnOp' = "once"
    /\ UNCHANGED <<fnArg, cliVars, srvVars>>

\* domainLabelFromTitle applied to the label it returned
SanitizeAgain ==
    /\ fnOp = "once"
    /\ fnArg' = fnOut
    /\ fnOut' = domainLabelFromTitle(fnOut)
    /\ fnOp' = "twice"
    /\ UNCHANGED <<cliVars, srvVars>>

NextLabel == Sanitize \/ SanitizeAgain

SpecLabel == InitLabel /\ [][NextLabel]_vars

----------------------------------------------------------------------------
(* pickCandidateTlds on its own, fed as both routes feed it *)

MaxTlds == 3
MaxLimit == 2

\* entries of the provider's list: priority TLDs, one with a leading dot, a
\* TLD outside the priority list, with and without a leading dot, and ""
TldItems == {com, io, <<".", "i", "o">>, <<"z", "z">>, <<".", "z", "z">>, <<>>}

\* a list longer than both limits: z, zz, zzz, ... and com at its end
LongTlds == [i \in 1 .. PlainLimit + 1 |-> [j \in 1 .. i |-> "z"]] \o <<com>>

TldReplies ==
    { [isArray |-> TRUE, items |-> l] :
          l \in UNION { [1 .. n -> TldItems] : n \in 0 .. MaxTlds } \cup {LongTlds} }
        \cup {[isArray |-> FALSE, items |-> <<>>]}

\* the limit argument: small ones, and those the two routes pass
Limits == (0 .. MaxLimit) \cup {AiLimit, PlainLimit}

InitTlds ==
    /\ Unused
    /\ fnArg \in [reply : TldReplies, limit : Limits]
    /\ fnOut = <<>>
    /\ fnOp = "none"

\* the provider's reply is cleaned and pickCandidateTlds(tlds, limit) is called
PickCandidates ==
    /\ fnOp = "none"
    /\ LET tlds == supportedToTlds(fnArg.reply)
       IN  fnOut' = [tlds |-> tlds, picked |-> pickCandidateTlds(tlds, fnArg.limit)]
    /\ fnOp' = "picked"
    /\ UNCHANGED <<fnArg, cliVars, srvVars>>

NextTlds == PickCandidates

SpecTlds == InitTlds /\ [][NextTlds]_vars

----------------------------------------------------------------------------
(* Claims about the client Search Coordinator, checked under Spec *)

LiveRequests == { r \in inflight : ~r.aborted }
Quiescent == mounted /\ timers = {} /\ inflight = {}
FireOps == {"fireHit", "fireMiss"}

\* C1: the continuation of a request that was aborted because a newer search
\* superseded it leaves results, loading and the URL's q as they were.
C1_SupersededCompletionMutatesNothing ==
    [][\A req \in inflight :
          (req.cause = "superseded" /\ FetchAborted(req))
              => UNCHANGED <<results, loading, url>>]_vars

\* C2: while the query is empty (after it was cleared, until the next
\* non-empty keystroke) the results are empty, loading is false and the URL
\* has no q, whatever continuation runs in between.
C2_EmptyQueryStaysCleared ==
    (mounted /\ q = NoQuery) =>
        (results = <<>> /\ ~loading /\ url = NoQuery)

\* C3: after the debounce expired for a query whose result set was stored
\* less than 2 minutes earlier, and the callback's task (with its microtasks)
\* has ended, no request for it is in flight and the displayed results are
\* the stored result set.
C3_RepeatedQueryRendersStored ==
    (lastSearch.fresh /\ ev.op \in {"fireHit", "fireMiss", "aborted"}
        /\ ~MicrotaskQueued)
    => (LiveRequests = {} /\ results = searchCache[lastSearch.q].results)

\* C4: once the coordinator is quiescent (no timer pending, no request or
\* continuation outstanding) the URL's q equals the current query.
C4_QuiescentUrlMatchesQuery == Quiescent => url = q

\* C5: at most one request that has not been aborted is in flight, and it is
\* the one fetchAbortRef holds: every request issued earlier was aborted.
C5_AtMostOneLiveRequest ==
    /\ Cardinality(LiveRequests) <= 1
    /\ \A r \in LiveRequests : r.ctl = fetchAbortRef

C5_Witness ==
    /\ \E r \in inflight : ~r.aborted /\ r.q = "dogs"
    /\ \E r \in inflight : r.aborted /\ r.cause = "superseded" /\ r.q = "cats"

\* C6: at most one debounce timer is pending, it is the one debounceRef
\* holds and it captured the current query; a search that just started was
\* started for the current query.
C6_OneTimerForCurrentQuery ==
    /\ Cardinality(timers) <= 1
    /\ \A t \in timers : t.q = q /\ t.id = debounceRef
    /\ ev.op \in FireOps => (ev.q = q /\ lastSearch.q = q)

C6_Witness ==
    /\ ev.op = "fireMiss" /\ ev.q = "dogs" /\ q = "dogs"
    /\ \E r \in inflight : r.q = "cats"

\* the entries of a result list
Entries(list) == { list[i] : i \in 1 .. Len(list) }

\* C18: whatever the endpoint answered, an error body included, no entry
\* built from the error payload is displayed or stored in the search cache.
C18_ErrorPayloadIsNeverAResult ==
    /\ ErrorBody.tok \notin Entries(results)
    /\ \A s \in Queries : ErrorBody.tok \notin Entries(searchCache[s].results)

\* C19: once the coordinator is quiescent with a non-empty query, a result
\* set for that query has been obtained and it is the one displayed.
C19_QuiescentResultsAreCurrent ==
    (Quiescent /\ q # NoQuery) =>
        (searchCache[q].present /\ results = searchCache[q].results)

\* C20: the continuation of a request that was aborted, or that failed at
\* the network level, writes no entry to the search cache.
C20_AbortedOrFailedWritesNoEntry ==
    [][\A req \in inflight :
          (FetchAborted(req) \/ FetchFail(req)) => searchCache' = searchCache]_vars

\* nothing is pending and the loading flag is off
Settled == Quiescent /\ ~loading

\* C22: from every state that is not settled the coordinator reaches a
\* settled state (no timer, no request, no continuation, loading false)
\* unless the query changes again; and a settled state stays settled until
\* the query changes.
C22_LoadingEventuallySettles ==
    /\ (mounted /\ ~Settled) ~> (Settled \/ ev.op \in {"key", "clear"})
    /\ [][(Settled /\ q' = q) => Settled']_vars

C22_Witness ==
    /\ Settled
    /\ q = "dogs"
    /\ ev = Event("aborted", "cats", "superseded")

----------------------------------------------------------------------------
(* Claims about POST /api/search, checked under SpecServer *)

\* C7: when the availability provider fails (getSupportedTlds or
\* getBulkAvailability throws) the response is an error body with a 5xx
\* status, never a success response.
C7_ProviderFailureIsErrorResponse ==
    sev.op \in {"tldsReject", "bulkReject"}
        => (sev.resp.status >= 500 /\ sev.resp.status <= 599
            /\ sev.resp.body = "error")

C7_Witness ==
    /\ sev.op = "bulkReject"
    /\ sev.resp.status = 500
    /\ queryOf(sentBody) # <<>>

\* the label/TLD fan-out of a request: label + "." + tld for each candidate
FanOut(r) ==
    LET finalTlds == pickCandidateTlds(r.tlds, limitOf(r.route))
    IN  [i \in 1 .. Len(finalTlds) |-> r.label \o <<".">> \o finalTlds[i]]

\* C8: the bulk-availability request carries exactly the normalized query
\* if and only if the query contains a '.' and no whitespace character of
\* any kind; in every other case it carries the label/TLD fan-out.
C8_FullDomainIffDotAndNoWhitespace ==
    \A s \in Slots :
        srv[s].pc = "bulk" =>
            IF includes(srv[s].q, ".") /\ ~hasWhitespace(srv[s].q)
            THEN srv[s].sent = <<stripLeadingDot(srv[s].q)>>
            ELSE srv[s].sent = FanOut(srv[s])

\* C9: for a non-empty query without whitespace getSearchLabelFromQuery
\* returns the normalized query at once, with no generation call and no
\* label-cache read or write.
C9_SingleTokenLabelIsNormalizedQuery ==
    [][\A slot \in Slots :
          (SrvStart(slot, "ai", sentBody)
              /\ queryOf(sentBody) # <<>> /\ ~hasWhitespace(queryOf(sentBody)))
          => (/\ srv'[slot].labelSt = "done"
              /\ srv'[slot].label = stripLeadingDot(queryOf(sentBody))
              /\ sev'.op = "start"
              /\ labelCache' = labelCache)]_vars

C9_Witness ==
    /\ sev.op = "start"
    /\ \E s \in Slots : /\ srv[s].route = "ai"
                        /\ srv[s].q = <<".", "a">>
                        /\ srv[s].labelSt = "done"
                        /\ srv[s].label = <<"a">>

\* C10: whatever the outcome of a generation call for a multi-word query
\* (a label, a text that sanitizes to empty, an error), the label cache then
\* holds the derived label under that query, stamped with the time the
\* derivation started; and an identical query that arrives after it, less
\* than LABEL_CACHE_TTL after that time, gets the same label with no
\* generation call.
C10_GenerationOncePerTtl ==
    /\ [](sev.op \in {"genResolve", "genReject"}
            => CacheGet(labelCache, derived.q)
                 = [present |-> TRUE, label |-> derived.label, ts |-> derived.at])
    /\ [][\A slot \in Slots :
            (SrvStart(slot, "ai", sentBody)
                /\ derived.outcome # "none"
                /\ derived.q = queryOf(sentBody)
                /\ srvClock - derived.at < LABEL_CACHE_TTL)
            => (/\ sev'.op = "startHit"
                /\ srv'[slot].labelSt = "done"
                /\ srv'[slot].label = derived.label)]_vars

C10_Witness ==
    /\ sev.op = "startHit"
    /\ derived.outcome = "error"
    /\ srvClock > derived.at

\* a valid SearchLabel: at most 63 characters of [a-z0-9-], no hyphen at
\* either end
ValidSearchLabel(s) ==
    /\ Len(s) <= LabelCap
    /\ \A i \in 1 .. Len(s) : IsLabelChar(s[i])
    /\ Len(s) > 0 => (s[1] # "-" /\ s[Len(s)] # "-")

\* C11: every label getSearchLabelFromQuery returned (the normalized query,
\* the sanitized generated title, or the fallback after an empty or failed
\* generation) is a valid SearchLabel.
C11_LabelIsValidSearchLabel ==
    \A s \in Slots :
        (srv[s].route = "ai" /\ srv[s].pc \in {"await", "bulk"}
            /\ srv[s].labelSt = "done")
        => ValidSearchLabel(srv[s].label)

\* the domain list POST builds from a request's query, label and TLD list
CandidateList(r) ==
    IF looksLikeDomain(r.q) THEN <<stripLeadingDot(r.q)>> ELSE FanOut(r)

\* C16: a request issues its bulk-availability call in the step in which
\* label derivation and TLD retrieval have both completed, and in no other
\* step (so exactly once, and never before both are complete); the call
\* carries the full candidate list and the team identifier; after TLD
\* retrieval failed the request issues no bulk-availability call.
C16_OneBulkCallAfterBoth ==
    /\ [](\A s \in Slots :
            /\ srv[s].pc = "bulk" =>
                  /\ srv[s].labelSt = "done" /\ srv[s].tldsSt = "done"
                  /\ srv[s].sent = CandidateList(srv[s])
                  /\ srv[s].teamId = teamIdOf(sentBody)
            /\ srv[s].pc = "orphan" => srv[s].tldsSt = "failed")
    /\ [][\A s \in Slots :
            /\ (srv[s].pc # "bulk" /\ srv'[s].pc = "bulk")
                 <=> (/\ ~(srv[s].labelSt = "done" /\ srv[s].tldsSt = "done")
                      /\ srv'[s].labelSt = "done" /\ srv'[s].tldsSt = "done")
            /\ srv[s].pc = "bulk" => srv'[s].pc \in {"bulk", "idle"}
            /\ TldsReject(s) => srv'[s].pc \in {"orphan", "idle"}
            /\ srv[s].pc = "orphan" => srv'[s].pc \in {"orphan", "idle"}]_vars

C16_Witness ==
    /\ sev.op = "genResolve"
    /\ \E s \in Slots :
          /\ srv[s].pc = "bulk" /\ srv[s].route = "ai"
          /\ srv[s].teamId = "team_1"
          /\ Len(srv[s].sent) > 1
          /\ srv[s].sent[1] = srv[s].label \o <<".">> \o com

\* q is missing, not a string, empty or made of whitespace only
BlankQuery(body) ==
    ~body.isString \/ \A i \in 1 .. Len(body.q) : body.q[i] \in Whitespace

\* C17: a request whose q is missing, not a string, empty or whitespace-only
\* is answered { domains: [] } with a success status at once: no generation
\* call, no supported-TLD fetch, no bulk-availability call, no cache read or
\* write.
C17_BlankQueryAnsweredEmpty ==
    [][\A slot \in Slots, route \in Routes :
          (SrvStart(slot, route, sentBody) /\ BlankQuery(sentBody))
          => (/\ sev' = ServerEvent("empty", emptyResponse)
              /\ sev'.resp.status = 200
              /\ UNCHANGED <<srv, labelCache, tldsCache>>)]_vars

C17_Witness ==
    /\ sev.op = "empty"
    /\ sentBody.isString /\ sentBody.q = <<" ", "\t">>
    /\ started = MaxRequests

\* a domain string label + "." + tld with a non-empty label and a non-empty TLD
WellFormedDomain(d) ==
    \E i \in 2 .. Len(d) - 1 : d[i] = "."

\* C21: every domain string a bulk-availability request carries is
\* non-empty and of the form label.tld with neither part empty, for every
\* non-empty query, queries that start with a dot included.
C21_BulkDomainsWellFormed ==
    \A s \in Slots :
        srv[s].pc = "bulk" =>
            \A i \in 1 .. Len(srv[s].sent) : WellFormedDomain(srv[s].sent[i])

----------------------------------------------------------------------------
(* Claims about domainLabelFromTitle, checked under SpecLabel *)

\* C12: domainLabelFromTitle applied to a label it returned gives that label
\* back, also when the sanitized text was longer than the 63-character cap.
C12_DomainLabelFromTitleIdempotent ==
    fnOp = "twice" => fnOut = fnArg

----------------------------------------------------------------------------
(* Claims about pickCandidateTlds, checked under SpecTlds *)

\* positions of COMMON whose TLD occurs in tlds
PriorityPresent(tlds) ==
    { k \in 1 .. Len(COMMON) : \E i \in 1 .. Len(tlds) : tlds[i] = COMMON[k] }

\* positions of tlds that hold no priority TLD
Remaining(tlds) ==
    { i \in 1 .. Len(tlds) : \A k \in 1 .. Len(COMMON) : tlds[i] # COMMON[k] }

\* the n-th smallest member of a set of positions
Nth(S, n) == CHOOSE k \in S : Cardinality({ j \in S : j <= k }) = n

\* C13: pickCandidateTlds returns the priority TLDs that occur in the list,
\* in priority order, then every other entry of the list in its original
\* order, cut to the limit; the result is never longer than the limit.
C13_PriorityThenRestTruncated ==
    fnOp = "picked" =>
        LET tlds == fnOut.tlds
            out == fnOut.picked
            P == Cardinality(PriorityPresent(tlds))
            R == Cardinality(Remaining(tlds))
        IN  /\ Len(out) <= fnArg.limit
            /\ Len(out) = IF P + R < fnArg.limit THEN P + R ELSE fnArg.limit
            /\ \A i \in 1 .. Len(out) :
                   out[i] = IF i <= P
                            THEN COMMON[Nth(PriorityPresent(tlds), i)]
                            ELSE tlds[Nth(Remaining(tlds), i - P)]

C13_Witness ==
    /\ fnOp = "picked"
    /\ fnArg.limit = AiLimit
    /\ Len(fnOut.tlds) = PlainLimit + 2
    /\ Len(fnOut.picked) = AiLimit
    /\ fnOut.picked[1] = com
    /\ fnOut.picked[2] = <<"z">>

\* C14: the candidate list pickCandidateTlds returns has no duplicates,
\* whatever list the provider returned.
C14_CandidatesHaveNoDuplicates ==
    fnOp = "picked" =>
        \A i, j \in 1 .. Len(fnOut.picked) :
            fnOut.picked[i] = fnOut.picked[j] => i = j

----------------------------------------------------------------------------
(* Claims about the supported-TLD fetch, checked under SpecServerRace *)

\* the supported-TLD list in the cache was fetched less than a TTL ago
TldsFresh == tldsCache.present /\ srvClock - tldsCache.ts < TLDS_CACHE_TTL

\* C15: a request starts an upstream supported-TLD fetch only when no such
\* fetch is outstanding and no list fetched within the TTL window is held:
\* one fetch per window, however the requests interleave.
C15_OneTldFetchPerWindow ==
    [][\A slot \in Slots :
          (srv[slot].tldsSt # "pending" /\ srv'[slot].tldsSt = "pending")
          => (/\ \A other \in Slots : srv[other].tldsSt # "pending"
              /\ ~TldsFresh)]_vars

====
